---- MODULE Spec2Model ----
(***************************************************************************)
(* Model of the Notion control plane of ecosystem-mcp-server:              *)
(*   notion_control.py  get_pending_requests, update_request_status,       *)
(*                      execute_request and its handlers, poll_and_process *)
(*   server.py          log_operation, run_command, organize_downloads,    *)
(*                      sync_notion_context, extract_tax_documents,        *)
(*                      run_reconciliation, process_automation_request    *)
(* The Notion database, the sqlite operations table and the subprocesses   *)
(* are the environment; their answers are drawn from small sets.           *)
(***************************************************************************)
EXTENDS Integers, Sequences, FiniteSets, TLC

\* ------------------------------------------------------------------ bounds
MaxReq == 2       \* pages in the Automation Requests database
MaxPasses == 2    \* polling passes one poll_and_process call may start
MaxManual == 1    \* calls of the process_automation_request tool
MaxFaults == 1    \* Notion API calls that fail in one behaviour
MaxOver == 3      \* characters a text may have beyond the Notion limit
MaxCount == 3     \* systems, documents, requests, events a briefing counts
MaxSkew == 2      \* seconds an artifact's age lies off a threshold
MaxLines == 3     \* lines icalBuddy prints
MaxTx == 2        \* transactions Monarch knows
MaxRuns == 2      \* sync_transactions runs in one behaviour

\* --------------------------------------------------------------- constants
None == "<None>"                      \* Python's None
NotionLimit == 2000                   \* result[:2000], error[:2000]

STATUS_QUEUED == "queued"
STATUS_RUNNING == "running"
STATUS_DONE == "done"
STATUS_FAILED == "failed"
Statuses == {STATUS_QUEUED, STATUS_RUNNING, STATUS_DONE, STATUS_FAILED}

REQUEST_TYPES == {"organize", "extract", "sync", "reconcile", "custom"}
\* values the Type select can hold: the five options, an option added by
\* hand in Notion ("deploy"), or no selection at all (parsed as None)
TypeValues == REQUEST_TYPES \cup {"deploy", None}
REQUEST_TARGETS ==
    {"tax", "media", "all", "treehouse", "yourco", "tap", "personal"}
\* the targets execute_organize tells apart, and one it does not
OrganizeTargets == {"tax", "media", "all"}
\* a Target option added by hand in Notion
KeywordTarget == "daily-briefing"

Req == 1..MaxReq                      \* page ids
Pollers == {1, 2}                     \* poll_and_process instances

\* Python truthiness of an Optional[str]
Truthy(s) == s # None /\ s # ""

\* (mutant: the slice stops one character early)
SliceShort(s, n) == IF Len(s) > n THEN SubSeq(s, 1, n - 1) ELSE s

\* s[:n]
Slice(s, n) == IF Len(s) > n THEN SubSeq(s, 1, n) ELSE s

\* str(x) inside an f-string
Str(x) == IF x = None THEN "None" ELSE x

\* dict.get(key, default)
Get(d, k, default) == IF k \in DOMAIN d THEN d[k] ELSE default

VARIABLES
    store,       \* [Req -> page properties]: Status, Completed, Result, Error
    reqType,     \* [Req -> TypeValues]: the Type select of each page
    reqTarget,   \* [Req -> the Target select's name, or None]
    created,     \* [Req -> Nat]: the Created date of each page
    operations,  \* row count of the sqlite operations table
    runs,        \* [Req -> Nat]: times a request's operation was dispatched
    once,        \* [Pollers -> BOOLEAN]: the once argument of poll_and_process
    pc,          \* [Pollers -> location in poll_and_process]
    requests,    \* [Pollers -> Seq(Req)]: the list the current pass fetched
    idx,         \* [Pollers -> Nat]: position of the for loop in requests
    ret,         \* [Pollers -> <<success, result, error>>] of execute_request
    passes,      \* [Pollers -> Nat]: passes started so far
    passEnd,     \* [Pollers -> how the last pass ended]
    ran,         \* [Pollers -> the server function the last dispatch invoked
                 \*             and the rows it added to the operations table]
    written,     \* [Pollers -> the last call of update_request_status]
    calls,       \* [Pollers -> Seq(call)]: the calls of the current pass
    mpc,         \* location in process_automation_request
    mreq,        \* the request_id argument of process_automation_request
    dispatched,  \* the last call of execute_request made on its own
    faults,      \* Notion API calls that have failed so far
    manual,      \* calls made from outside the poller so far
    briefing,    \* the briefing dict passed to _generate_summary
    summary,     \* what _generate_summary returned (None before the call)
    artifact,    \* the file a status check looks at: its kind and its age
    health,      \* the "status" entry the check returned (None before)
    world,       \* what the environment answers to a function called alone
    returned,    \* what that function returned (NotReturned before)
    database,    \* [Monarch ID -> pages of the transactions database]
    syncRun      \* the last sync_transactions run: arguments and result

vars == <<store, reqType, reqTarget, created, operations, runs, once, pc,
          requests, idx, ret, ran, written, passes, passEnd, calls,
          mpc, mreq, dispatched, faults, manual,
          briefing, summary, artifact, health, world, returned,
          database, syncRun>>

pollerVars == <<once, pc, requests, idx, ret, ran, written, passes, passEnd,
                calls>>
manualVars == <<mpc, mreq, manual, dispatched>>
worldVars == <<operations, runs>>
pageVars == <<reqType, reqTarget, created>>
\* the functions that are called on their own
summaryVars == <<briefing, summary>>
checkVars == <<artifact, health>>
callVars == <<world, returned>>
syncVars == <<database, syncRun>>
ownVars == <<summaryVars, checkVars, callVars, syncVars>>
\* the control plane
planeVars == <<store, pageVars, worldVars, pollerVars, manualVars, faults>>

\* ------------------------------------------------- environment's answers
\* run_command: (returncode == 0, stderr); a timeout and any other failure
\* to start the process are reported as (False, "", text)
run_command ==
    { [ok |-> TRUE, stderr |-> ""],
      [ok |-> FALSE, stderr |-> "Command timed out"],
      [ok |-> FALSE, stderr |-> ""] }

\* What the world answers during one dispatch:
\*   importOk    "from . import server" succeeds
\*   repoExists  the repository (and its script) of the operation exists
\*   raises      the body of the server function raises
\*   run         the answer of run_command
\*   issues      issues run_reconciliation finds
\*   logOk       the INSERT of log_operation succeeds
\* (an answer that is never asked for is left at its default)
Envs ==
    { e \in [importOk : BOOLEAN, repoExists : BOOLEAN, raises : BOOLEAN,
              run : run_command, issues : {0, 2}, logOk : BOOLEAN] :
        /\ ~e.importOk => e.repoExists /\ ~e.raises /\ e.logOk
        /\ ~e.importOk \/ ~e.repoExists \/ e.raises
             => e.run.ok /\ e.issues = 0
        /\ e.raises => e.repoExists }

\* The answers drawn while a poller dispatches: the INSERT succeeds and the
\* server function does not raise
PollEnvs == { e \in Envs : e.logOk /\ ~e.raises /\ e.issues = 0 }

\* update_request_status and databases.query: the call succeeds, fails with
\* APIResponseError (or no client is available), or raises anything else
\* (notion_client's RequestTimeoutError, HTTPResponseError, ...)
ApiOutcomes == {"ok", "api_error", "raise"}

\* The API call may end `outcome` while fewer than `budget` calls have
\* failed, and it is counted when it failed
AnswerWithin(outcome, budget) ==
    /\ outcome # "ok" => faults < budget
    /\ faults' = IF outcome # "ok" THEN faults + 1 ELSE faults

Answer(outcome) == AnswerWithin(outcome, MaxFaults)

\* ------------------------------------------------------------- server.py
\* log_operation: one INSERT; a failure of the INSERT is swallowed
log_operation(logOk) == IF logOk THEN 1 ELSE 0

\* organize_downloads(file_type, dry_run): <<json document, rows logged>>
organize_downloads(file_type, dry_run, env) ==
    IF env.raises
    THEN <<[error |-> "Error organizing downloads: boom"], log_operation(env.logOk)>>
    ELSE IF ~env.repoExists
    THEN <<[error |-> "downloads-organizer not found"], log_operation(env.logOk)>>
    ELSE <<[file_type |-> file_type,
            dry_run |-> dry_run,
            pdf |-> IF file_type \in {"pdf", "all"}
                    THEN [success |-> env.run.ok,
                          error |-> IF env.run.ok THEN None ELSE env.run.stderr]
                    ELSE None,
            media |-> IF file_type \in {"media", "all"}
                      THEN [success |-> env.run.ok,
                            error |-> IF env.run.ok THEN None ELSE env.run.stderr]
                      ELSE None,
            remaining |-> [pdfs |-> 0, media |-> 0]],
           log_operation(env.logOk)>>

\* sync_notion_context(): <<json document, rows logged>>
sync_notion_context(env) ==
    IF env.raises
    THEN <<[error |-> "Error syncing context: boom"], log_operation(env.logOk)>>
    ELSE IF ~env.repoExists
    THEN <<[error |-> "treehouse-context-sync not found"], log_operation(env.logOk)>>
    ELSE <<[success |-> env.run.ok,
            output |-> None,
            error |-> IF env.run.ok THEN None ELSE env.run.stderr,
            last_sync |-> "2026-01-01T00:00:00"],
           log_operation(env.logOk)>>

\* extract_tax_documents(): <<json document, rows logged>>
extract_tax_documents(env) ==
    IF env.raises
    THEN <<[error |-> "Error extracting tax documents: boom"], log_operation(env.logOk)>>
    ELSE IF ~env.repoExists
    THEN <<[error |-> "notion-rules not found"], log_operation(env.logOk)>>
    ELSE <<[success |-> env.run.ok,
            output |-> None,
            error |-> IF env.run.ok THEN None ELSE env.run.stderr,
            processed |-> 3,
            needs_review |-> 1],
           log_operation(env.logOk)>>

\* run_reconciliation(): <<json document, rows logged>>
run_reconciliation(env) ==
    IF env.raises
    THEN <<[error |-> "Error running reconciliation: boom"], log_operation(env.logOk)>>
    ELSE <<[issues |-> IF env.issues = 0 THEN <<>>
                        ELSE [i \in 1..env.issues |-> "LaunchAgent: Not loaded"],
            status |-> IF env.issues = 0 THEN "healthy" ELSE "issues_found",
            issue_count |-> env.issues],
           log_operation(env.logOk)>>

\* ----------------------------------------------- notion_control.py handlers
\* A handler's outcome: the tuple it returns (or the exception it raises),
\* the server function it invoked and the rows that function logged.
\* What a server function's json document reports: its "success" entry
\* ("true", "false" or "absent") and its "error" entry ("absent", "null" for
\* None, "string" for a text), and the "file_type" and "dry_run" entries of
\* organize_downloads ("absent" in every other document)
Report(data) ==
    [success |-> IF "success" \in DOMAIN data
                 THEN IF data["success"] THEN "true" ELSE "false"
                 ELSE "absent",
     error |-> IF "error" \in DOMAIN data
               THEN IF data["error"] = None THEN "null" ELSE "string"
               ELSE "absent",
     file_type |-> Get(data, "file_type", "absent"),
     dry_run |-> IF "dry_run" \in DOMAIN data
                 THEN IF data["dry_run"] THEN "true" ELSE "false"
                 ELSE "absent"]
NoData == <<>>

Returned(tuple, op, rows, data) ==
    [raised |-> FALSE, exc |-> None, ret |-> tuple, op |-> op, rows |-> rows,
     report |-> Report(data)]
Raised(exc) ==
    [raised |-> TRUE, exc |-> exc, ret |-> <<FALSE, None, None>>,
     op |-> None, rows |-> 0, report |-> Report(NoData)]

ImportError == "No module named 'mcp'"

\* (mutant: every target but media is organized as pdf)
execute_organizePdf(target, env) ==
    IF ~env.importOk THEN Raised(ImportError)
    ELSE LET file_type == IF target = "media" THEN "media" ELSE "pdf"
             result == organize_downloads(file_type, FALSE, env)
             data == result[1]
         IN IF "error" \in DOMAIN data
            THEN Returned(<<FALSE, None, data["error"]>>,
                          "organize_downloads", result[2], data)
            ELSE Returned(<<TRUE, "Organized files.", None>>,
                          "organize_downloads", result[2], data)

execute_organize(target, env) ==
    IF ~env.importOk THEN Raised(ImportError)
    ELSE LET file_type == IF target = "tax" THEN "pdf"
                          ELSE IF target = "media" THEN "media"
                          ELSE "all"
             result == organize_downloads(file_type, FALSE, env)
             data == result[1]
         IN IF "error" \in DOMAIN data
            THEN Returned(<<FALSE, None, data["error"]>>,
                          "organize_downloads", result[2], data)
            ELSE Returned(<<TRUE,
                            "Organized files. Remaining: "
                              \o ToString(Get(data["remaining"], "pdfs", 0))
                              \o " PDFs, "
                              \o ToString(Get(data["remaining"], "media", 0))
                              \o " media",
                            None>>,
                          "organize_downloads", result[2], data)

execute_extract(env) ==
    IF ~env.importOk THEN Raised(ImportError)
    ELSE LET result == extract_tax_documents(env)
             data == result[1]
         IN IF "error" \in DOMAIN data
            THEN Returned(<<FALSE, None, data["error"]>>,
                          "extract_tax_documents", result[2], data)
            ELSE IF Get(data, "success", FALSE)
            THEN Returned(<<TRUE,
                            "Extracted " \o ToString(Get(data, "processed", 0))
                              \o " documents. "
                              \o ToString(Get(data, "needs_review", 0))
                              \o " need review.",
                            None>>,
                          "extract_tax_documents", result[2], data)
            ELSE Returned(<<FALSE, None, Get(data, "error", "Extraction failed")>>,
                          "extract_tax_documents", result[2], data)

execute_sync(target, env) ==
    IF ~env.importOk THEN Raised(ImportError)
    ELSE LET result == sync_notion_context(env)
             data == result[1]
         IN IF "error" \in DOMAIN data
            THEN Returned(<<FALSE, None, data["error"]>>,
                          "sync_notion_context", result[2], data)
            ELSE IF Get(data, "success", FALSE)
            THEN Returned(<<TRUE,
                            "Context synced. Last sync: "
                              \o Get(data, "last_sync", "unknown"),
                            None>>,
                          "sync_notion_context", result[2], data)
            ELSE Returned(<<FALSE, None, Get(data, "error", "Sync failed")>>,
                          "sync_notion_context", result[2], data)

\* sep.join(parts)
RECURSIVE JoinWith(_, _)
JoinWith(sep, parts) ==
    IF parts = <<>> THEN ""
    ELSE IF Len(parts) = 1 THEN parts[1]
    ELSE parts[1] \o sep \o JoinWith(sep, Tail(parts))

\* '; '.join(issues)
Join(issues) == JoinWith("; ", issues)

\* (mutant: a check that found issues is reported as failed)
execute_reconcileStrict(env) ==
    IF ~env.importOk THEN Raised(ImportError)
    ELSE LET result == run_reconciliation(env)
             data == result[1]
         IN IF "error" \in DOMAIN data
            THEN Returned(<<FALSE, None, data["error"]>>,
                          "run_reconciliation", result[2], data)
            ELSE IF Get(data, "issue_count", 0) = 0
            THEN Returned(<<TRUE, "All systems healthy. No issues found.", None>>,
                          "run_reconciliation", result[2], data)
            ELSE Returned(<<FALSE, None,
                            "Found " \o ToString(Get(data, "issue_count", 0))
                              \o " issues">>,
                          "run_reconciliation", result[2], data)

execute_reconcile(env) ==
    IF ~env.importOk THEN Raised(ImportError)
    ELSE LET result == run_reconciliation(env)
             data == result[1]
         IN IF "error" \in DOMAIN data
            THEN Returned(<<FALSE, None, data["error"]>>,
                          "run_reconciliation", result[2], data)
            ELSE IF Get(data, "issue_count", 0) = 0
            THEN Returned(<<TRUE, "All systems healthy. No issues found.", None>>,
                          "run_reconciliation", result[2], data)
            ELSE Returned(<<TRUE,
                            "Found " \o ToString(Get(data, "issue_count", 0))
                              \o " issues: "
                              \o Join(SubSeq(Get(data, "issues", <<>>), 1,
                                              IF Len(Get(data, "issues", <<>>)) < 3
                                              THEN Len(Get(data, "issues", <<>>))
                                              ELSE 3)),
                            None>>,
                          "run_reconciliation", result[2], data)

execute_custom(request_text, target, env) ==
    Returned(<<TRUE,
               "Custom request logged: '" \o request_text \o "' (target: "
                 \o Str(target) \o "). Requires manual handling.",
               None>>,
             None, 0, NoData)

\* (mutant: an unrecognized type falls through to the custom handler)
DispatchLenient(request, env) ==
    IF request.type = "organize" THEN execute_organize(request.target, env)
    ELSE IF request.type = "extract" THEN execute_extract(env)
    ELSE IF request.type = "sync" THEN execute_sync(request.target, env)
    ELSE IF request.type = "reconcile" THEN execute_reconcile(env)
    ELSE execute_custom(request.request, request.target, env)

\* The handler execute_request dispatches to, by the request's type
Dispatch(request, env) ==
    IF request.type = "organize" THEN execute_organize(request.target, env)
    ELSE IF request.type = "extract" THEN execute_extract(env)
    ELSE IF request.type = "sync" THEN execute_sync(request.target, env)
    ELSE IF request.type = "reconcile" THEN execute_reconcile(env)
    ELSE IF request.type = "custom"
    THEN execute_custom(request.request, request.target, env)
    ELSE Returned(<<FALSE, None, "Unknown request type: " \o Str(request.type)>>,
                  None, 0, NoData)

\* execute_request(request): the handler's tuple, or (False, None, str(e))
\* when the handler raised
execute_request(request, env) ==
    LET h == Dispatch(request, env)
    IN IF h.raised
       THEN [h EXCEPT !.ret = <<FALSE, None, h.exc>>]
       ELSE h

\* ------------------------------------------------------- the Notion store
NewPage == [Status |-> STATUS_QUEUED, Completed |-> None,
            Result |-> None, Error |-> None]

\* parse_request_page(page): the request dict of page r
parse_request_page(r) ==
    [id |-> r, request |-> "do it", type |-> reqType[r],
     target |-> reqTarget[r], status |-> store[r].Status,
     created |-> created[r]]

\* (mutant: the pages come back in the order of their ids)
RECURSIVE SortById(_)
SortById(S) ==
    IF S = {} THEN <<>>
    ELSE LET first == CHOOSE r \in S : \A q \in S : r <= q
         IN <<first>> \o SortById(S \ {first})

\* sorts=[{"property": "Created", "direction": "ascending"}] over a set of pages
RECURSIVE SortByCreated(_)
SortByCreated(S) ==
    IF S = {} THEN <<>>
    ELSE LET first == CHOOSE r \in S : \A q \in S : created[r] <= created[q]
         IN <<first>> \o SortByCreated(S \ {first})

\* (mutant: the query has no Status filter)
QueryAll == SortByCreated(Req)

\* databases.query(filter Status == queued, sorts Created ascending)
QueryQueued == SortByCreated({r \in Req : store[r].Status = STATUS_QUEUED})

\* (mutant: a request that was executed before is not fetched again)
get_pending_requestsFresh(outcome) ==
    IF outcome = "ok"
    THEN SelectSeq(QueryQueued, LAMBDA r : runs[r] = 0)
    ELSE <<>>

\* get_pending_requests(): the ids of the parsed requests, in the order of
\* the answer; [] when the query fails with APIResponseError
get_pending_requests(outcome) ==
    IF outcome = "ok" THEN QueryQueued ELSE <<>>

\* (mutant: every write sends all four properties, empty where nothing
\* was passed)
update_request_statusAll(page, status, result, error) ==
    [Status |-> status,
     Completed |-> IF status \in {STATUS_DONE, STATUS_FAILED}
                   THEN "now" ELSE None,
     Result |-> IF Truthy(result) THEN Slice(result, NotionLimit) ELSE None,
     Error |-> IF Truthy(error) THEN Slice(error, NotionLimit) ELSE None]

\* The properties update_request_status sends, applied to a page
update_request_status(page, status, result, error) ==
    [Status |-> status,
     Completed |-> IF status \in {STATUS_DONE, STATUS_FAILED}
                   THEN "now" ELSE page.Completed,
     Result |-> IF Truthy(result) THEN Slice(result, NotionLimit)
                ELSE page.Result,
     Error |-> IF Truthy(error) THEN Slice(error, NotionLimit)
               ELSE page.Error]

\* (mutant: running is written only to a page that is still queued)
WrittenIfQueued(r, status, result, error, outcome) ==
    IF outcome = "ok"
       /\ ~(status = STATUS_RUNNING /\ store[r].Status # STATUS_QUEUED)
    THEN [store EXCEPT ![r] = update_request_status(@, status, result, error)]
    ELSE store

\* The store after update_request_status(r, ...) whose API call ended `outcome`
Written(r, status, result, error, outcome) ==
    IF outcome = "ok"
    THEN [store EXCEPT ![r] = update_request_status(@, status, result, error)]
    ELSE store

\* ------------------------------------------------------------------- Init
\* An update_request_status call: its arguments and how the API call ended
UpdateCall(r, status, result, error, outcome) ==
    [id |-> r, status |-> status, result |-> result, error |-> error,
     outcome |-> outcome]
NoUpdate == UpdateCall(0, None, None, None, None)
\* What a dispatch did besides returning its tuple
Ran(h) == [op |-> h.op, rows |-> h.rows, raised |-> h.raised,
           report |-> h.report]
NoRun == [op |-> None, rows |-> 0, raised |-> FALSE, report |-> Report(NoData)]
\* A call of execute_request: the request, the world's answers, the outcome
Dispatched(request, env, h) ==
    [type |-> request.type, target |-> request.target, env |-> env,
     ret |-> h.ret, ran |-> Ran(h)]
NoDispatch == [type |-> "", target |-> None, env |-> None,
               ret |-> <<FALSE, None, None>>, ran |-> NoRun]


\* The functions that are called on their own have not been called
SummaryIdle == briefing = None /\ summary = None
CheckIdle == artifact = None /\ health = None
\* The value of returned while the call has not been made
NotReturned == [pending |-> TRUE]
HasReturned == "pending" \notin DOMAIN returned
CallIdle == world = None /\ returned = NotReturned
SyncIdle == database = None /\ syncRun = None
NoneCalled ==
    /\ SummaryIdle
    /\ CheckIdle
    /\ CallIdle
    /\ SyncIdle

Kinds ==
    { k \in [type : TypeValues, target : OrganizeTargets \cup {None}] :
        k.type # "organize" => k.target = None }

Init ==
    /\ store = [r \in Req |-> NewPage]
    \* the database holds pages of two kinds, alternating
    /\ \E odd \in Kinds, even \in Kinds :
         LET kind == [r \in Req |-> IF r % 2 = 1 THEN odd ELSE even]
         IN /\ reqType = [r \in Req |-> kind[r].type]
            /\ reqTarget = [r \in Req |-> kind[r].target]
    \* page ids are opaque: the page with the larger id is the older one
    /\ created = [r \in Req |-> MaxReq + 1 - r]
    /\ operations = 0
    /\ runs = [r \in Req |-> 0]
    /\ once = [p \in Pollers |-> FALSE]
    /\ pc = [p \in Pollers |-> "idle"]
    /\ requests = [p \in Pollers |-> <<>>]
    /\ idx = [p \in Pollers |-> 0]
    /\ ret = [p \in Pollers |-> <<FALSE, None, None>>]
    /\ ran = [p \in Pollers |-> NoRun]
    /\ written = [p \in Pollers |-> NoUpdate]
    /\ passes = [p \in Pollers |-> 0]
    /\ passEnd = [p \in Pollers |-> "none"]
    /\ calls = [p \in Pollers |-> <<>>]
    /\ mpc = "idle"
    /\ mreq = 0
    /\ dispatched = NoDispatch
    /\ faults = 0
    /\ manual = 0
    /\ NoneCalled

\* -------------------------------------------------------- poll_and_process
\* One recorded call of the current pass
Update(r, status) == [kind |-> "update", id |-> r, status |-> status]
Execute(r) == [kind |-> "execute", id |-> r, status |-> None]

\* (mutant: the loop sleeps and goes on whatever once is)
AfterPassLoop(p) == "sleep"

\* "if once: break", else time.sleep(interval)
AfterPass(p) == IF once[p] THEN "returned" ELSE "sleep"

\* (mutant: the request is executed without being marked running first)
AfterFetchNoClaim(p, reqs) == IF reqs # <<>> THEN "exec" ELSE AfterPass(p)

\* The location after get_pending_requests returned reqs
AfterFetch(p, reqs) == IF reqs # <<>> THEN "claim" ELSE AfterPass(p)

\* The location after the write of running
AfterClaim == "exec"

\* The status write that follows execute_request: <<status, result, error>>
FinalWrite(tuple) ==
    IF tuple[1] THEN <<STATUS_DONE, tuple[2], None>>
    ELSE <<STATUS_FAILED, None, tuple[3]>>

\* (mutant: an exception in a pass ends poll_and_process)
PassRaisedFatal(p) ==
    /\ passEnd' = [passEnd EXCEPT ![p] = "exception"]
    /\ pc' = [pc EXCEPT ![p] = "returned"]

\* "except Exception as e": the pass is over
PassRaised(p) ==
    /\ passEnd' = [passEnd EXCEPT ![p] = "exception"]
    /\ pc' = [pc EXCEPT ![p] = AfterPass(p)]

\* poll_and_process(once, interval) is called
Start(p) ==
    /\ pc[p] = "idle"
    /\ \E o \in BOOLEAN : once' = [once EXCEPT ![p] = o]
    /\ pc' = [pc EXCEPT ![p] = "fetch"]
    /\ UNCHANGED ownVars
    /\ UNCHANGED <<store, pageVars, worldVars, requests, idx, ret, ran,
                   written, passes, passEnd, calls, manualVars, faults>>

\* requests = get_pending_requests()
Fetching(p, budget) ==
    /\ pc[p] = "fetch"
    /\ passes[p] < MaxPasses
    /\ passes' = [passes EXCEPT ![p] = @ + 1]
    /\ calls' = [calls EXCEPT ![p] = <<>>]
    \* the locals of the previous pass are dead
    /\ ret' = [ret EXCEPT ![p] = <<FALSE, None, None>>]
    /\ ran' = [ran EXCEPT ![p] = NoRun]
    /\ written' = [written EXCEPT ![p] = NoUpdate]
    /\ \E outcome \in ApiOutcomes :
         /\ AnswerWithin(outcome, budget)
         /\ IF outcome = "raise"
            THEN /\ requests' = [requests EXCEPT ![p] = <<>>]
                 /\ idx' = [idx EXCEPT ![p] = 0]
                 /\ PassRaised(p)
            ELSE LET reqs == get_pending_requests(outcome)
                 IN /\ requests' = [requests EXCEPT ![p] = reqs]
                    /\ idx' = [idx EXCEPT ![p] = IF reqs # <<>> THEN 1 ELSE 0]
                    /\ passEnd' = [passEnd EXCEPT ![p] =
                                     IF reqs # <<>> THEN "none" ELSE "ok"]
                    /\ pc' = [pc EXCEPT ![p] = AfterFetch(p, reqs)]
    /\ UNCHANGED ownVars
    /\ UNCHANGED <<store, pageVars, worldVars, once, manualVars>>

Fetch(p) == Fetching(p, MaxFaults)

\* update_request_status(req_id, STATUS_RUNNING)
Claiming(p, budget) ==
    /\ pc[p] = "claim"
    /\ LET r == requests[p][idx[p]]
       IN \E outcome \in ApiOutcomes :
            /\ AnswerWithin(outcome, budget)
            /\ store' = Written(r, STATUS_RUNNING, None, None, outcome)
            /\ written' = [written EXCEPT ![p] =
                 UpdateCall(r, STATUS_RUNNING, None, None, outcome)]
            /\ calls' = [calls EXCEPT ![p] = Append(@, Update(r, STATUS_RUNNING))]
            /\ IF outcome = "raise"
               THEN PassRaised(p)
               ELSE /\ passEnd' = passEnd
                    /\ pc' = [pc EXCEPT ![p] = AfterClaim]
    /\ UNCHANGED ownVars
    /\ UNCHANGED <<pageVars, worldVars, once, requests, idx, ret, ran, passes,
                   manualVars>>

Claim(p) == Claiming(p, MaxFaults)

\* success, result, error = execute_request(req)
Dispatching(p, envs) ==
    /\ pc[p] = "exec"
    /\ LET r == requests[p][idx[p]]
       IN \E env \in envs :
            LET h == execute_request(parse_request_page(r), env)
            IN /\ ret' = [ret EXCEPT ![p] = h.ret]
               /\ ran' = [ran EXCEPT ![p] = Ran(h)]
               /\ operations' = operations + h.rows
               /\ runs' = [runs EXCEPT ![r] = @ + 1]
               /\ calls' = [calls EXCEPT ![p] = Append(@, Execute(r))]
    /\ pc' = [pc EXCEPT ![p] = "finalize"]
    /\ UNCHANGED ownVars
    /\ UNCHANGED <<store, pageVars, once, requests, idx, written, passes,
                   passEnd, manualVars, faults>>

Exec(p) == Dispatching(p, PollEnvs)

\* update_request_status(req_id, STATUS_DONE, result=result) or
\* update_request_status(req_id, STATUS_FAILED, error=error); next request
Finalizing(p, budget) ==
    /\ pc[p] = "finalize"
    /\ LET r == requests[p][idx[p]]
           w == FinalWrite(ret[p])
           last == idx[p] = Len(requests[p])
       IN \E outcome \in ApiOutcomes :
            /\ AnswerWithin(outcome, budget)
            /\ store' = Written(r, w[1], w[2], w[3], outcome)
            /\ written' = [written EXCEPT ![p] =
                 UpdateCall(r, w[1], w[2], w[3], outcome)]
            /\ calls' = [calls EXCEPT ![p] = Append(@, Update(r, w[1]))]
            /\ IF outcome = "raise"
               THEN /\ PassRaised(p)
                    /\ idx' = idx
               ELSE /\ passEnd' = [passEnd EXCEPT ![p] =
                                     IF last THEN "ok" ELSE "none"]
                    /\ pc' = [pc EXCEPT ![p] =
                                IF last THEN AfterPass(p) ELSE "claim"]
                    /\ idx' = [idx EXCEPT ![p] = IF last THEN @ ELSE @ + 1]
    /\ UNCHANGED ownVars
    /\ UNCHANGED <<pageVars, worldVars, once, requests, ret, ran, passes,
                   manualVars>>

Finalize(p) == Finalizing(p, MaxFaults)

\* time.sleep(interval) returns
Sleep(p) ==
    /\ pc[p] = "sleep"
    /\ pc' = [pc EXCEPT ![p] = "fetch"]
    /\ UNCHANGED ownVars
    /\ UNCHANGED <<store, pageVars, worldVars, once, requests, idx, ret, ran,
                   written, passes, passEnd, calls, manualVars, faults>>

\* (mutant: the interrupt puts the request in flight back to queued)
InterruptRollback(p) ==
    /\ pc[p] \in {"fetch", "claim", "exec", "finalize", "sleep"}
    /\ pc' = [pc EXCEPT ![p] = "returned"]
    /\ passEnd' = [passEnd EXCEPT ![p] =
                     IF pc[p] \in {"claim", "exec", "finalize"}
                     THEN "interrupt" ELSE @]
    /\ store' = IF pc[p] \in {"exec", "finalize"}
                THEN [store EXCEPT ![requests[p][idx[p]]].Status = STATUS_QUEUED]
                ELSE store
    /\ UNCHANGED ownVars
    /\ UNCHANGED <<pageVars, worldVars, once, requests, idx, ret, ran,
                   written, passes, calls, manualVars, faults>>

\* KeyboardInterrupt: "Polling stopped by user", break
Interrupt(p) ==
    /\ pc[p] \in {"fetch", "claim", "exec", "finalize", "sleep"}
    /\ pc' = [pc EXCEPT ![p] = "returned"]
    /\ passEnd' = [passEnd EXCEPT ![p] =
                     IF pc[p] \in {"claim", "exec", "finalize"}
                     THEN "interrupt" ELSE @]
    /\ UNCHANGED ownVars
    /\ UNCHANGED <<store, pageVars, worldVars, once, requests, idx, ret, ran,
                   written, passes, calls, manualVars, faults>>

Poller(p) ==
    \/ Start(p)
    \/ Fetch(p)
    \/ Claim(p)
    \/ Exec(p)
    \/ Finalize(p)
    \/ Sleep(p)
    \/ Interrupt(p)

\* One poll_and_process instance alone with the store
Next == Poller(1)
Spec == Init /\ [][Next]_vars

\* update_request_status returns True: the write of running, and the write
\* of done or failed, with the API call succeeding
ClaimOk(p) == Claim(p) /\ faults' = faults
FinalizeOk(p) == Finalize(p) /\ faults' = faults

\* One poll_and_process instance whose status writes all succeed (a fetch
\* may fail)
NextSteady ==
    \/ Start(1)
    \/ Fetch(1)
    \/ ClaimOk(1)
    \/ Exec(1)
    \/ FinalizeOk(1)
    \/ Sleep(1)
    \/ Interrupt(1)
SpecSteady == Init /\ [][NextSteady]_vars

\* -------------------------------------- server.process_automation_request
\* "success, result_msg = ..." succeeds for a tuple of two values only
Unpacks2(tuple) == Len(tuple) = 2

\* "except Exception as e": log_operation(..., False) and return the error
ManualRaised ==
    /\ operations' = operations + log_operation(TRUE)
    /\ mpc' = "idle"

\* process_automation_request(rid) is called: client.pages.retrieve, parse
MStart(rid) ==
    /\ mpc = "idle"
    /\ manual < MaxManual
    /\ manual' = manual + 1
    /\ mreq' = rid
    /\ \E outcome \in ApiOutcomes :
         /\ Answer(outcome)
         /\ IF outcome = "ok"
            THEN /\ mpc' = "claim"
                 /\ operations' = operations
            ELSE ManualRaised
    /\ UNCHANGED ownVars
    /\ UNCHANGED <<store, pageVars, runs, pollerVars, dispatched>>

\* notion_control.update_request_status(request_id, STATUS_RUNNING)
MClaim ==
    /\ mpc = "claim"
    /\ \E outcome \in ApiOutcomes :
         /\ Answer(outcome)
         /\ store' = Written(mreq, STATUS_RUNNING, None, None, outcome)
         /\ IF outcome = "raise"
            THEN ManualRaised
            ELSE /\ mpc' = "exec"
                 /\ operations' = operations
    /\ UNCHANGED ownVars
    /\ UNCHANGED <<pageVars, runs, pollerVars, mreq, manual, dispatched>>

\* success, result_msg = notion_control.execute_request(request), then the
\* write of done or failed (both with result=result_msg) and log_operation
MExec ==
    /\ mpc = "exec"
    /\ \E env \in PollEnvs :
         LET h == execute_request(parse_request_page(mreq), env)
         IN /\ runs' = [runs EXCEPT ![mreq] = @ + 1]
            /\ operations' = operations + h.rows + log_operation(TRUE)
            /\ store' = IF Unpacks2(h.ret)
                        THEN Written(mreq,
                                     IF h.ret[1] THEN STATUS_DONE
                                     ELSE STATUS_FAILED,
                                     h.ret[2], None, "ok")
                        ELSE store
    /\ mpc' = "idle"
    /\ UNCHANGED ownVars
    /\ UNCHANGED <<pageVars, pollerVars, mreq, manual, dispatched, faults>>

Manual ==
    \/ \E rid \in Req : MStart(rid)
    \/ MClaim
    \/ MExec

\* Every operation answers normally
NormalEnvs == { e \in PollEnvs : e.importOk /\ e.repoExists /\ e.run.ok }
ExecNormal(p) == Dispatching(p, NormalEnvs)

\* One poller and the MCP server's process_automation_request tool
\* (nobody interrupts the poller)
NextTool ==
    \/ Start(1)
    \/ Fetch(1)
    \/ Claim(1)
    \/ ExecNormal(1)
    \/ Finalize(1)
    \/ Sleep(1)
    \/ Manual
SpecTool == Init /\ [][NextTool]_vars

\* Two poll_and_process instances against the same store
\* (pages of two kinds without a target; nobody interrupts)
InitRace ==
    /\ Init
    /\ \A r \in Req : reqType[r] \in {"organize", "custom"}
                     /\ reqTarget[r] = None
NextRace ==
    \E p \in Pollers :
        \/ Start(p)
        \/ Fetch(p)
        \/ Claim(p)
        \/ ExecNormal(p)
        \/ Finalize(p)
        \/ Sleep(p)
SpecRace == InitRace /\ [][NextRace]_vars

\* ------------------------------------------------- the dispatcher on its own
\* execute_request(request) for page r, under every answer of the world
ExecuteRequest(r) ==
    /\ manual < MaxManual
    /\ manual' = manual + 1
    /\ \E env \in Envs :
         LET request == parse_request_page(r)
             h == execute_request(request, env)
         IN /\ dispatched' = Dispatched(request, env, h)
            /\ operations' = operations + h.rows
            /\ runs' = [runs EXCEPT ![r] = @ + 1]
    /\ UNCHANGED ownVars
    /\ UNCHANGED <<store, pageVars, pollerVars, mpc, mreq, faults>>

NextDispatch == \E r \in Req : ExecuteRequest(r)
SpecDispatch == Init /\ [][NextDispatch]_vars

\* The dispatcher on its own, over organize and custom requests with every
\* Target option, a missing one and one added by hand
ArgKinds ==
    [type : {"organize", "custom"},
     target : REQUEST_TARGETS \cup {KeywordTarget, None}]
InitArgs ==
    /\ store = [r \in Req |-> NewPage]
    /\ \E odd \in ArgKinds, even \in ArgKinds :
         LET kind == [r \in Req |-> IF r % 2 = 1 THEN odd ELSE even]
         IN /\ reqType = [r \in Req |-> kind[r].type]
            /\ reqTarget = [r \in Req |-> kind[r].target]
    /\ created = [r \in Req |-> MaxReq + 1 - r]
    /\ operations = 0
    /\ runs = [r \in Req |-> 0]
    /\ once = [p \in Pollers |-> FALSE]
    /\ pc = [p \in Pollers |-> "idle"]
    /\ requests = [p \in Pollers |-> <<>>]
    /\ idx = [p \in Pollers |-> 0]
    /\ ret = [p \in Pollers |-> <<FALSE, None, None>>]
    /\ ran = [p \in Pollers |-> NoRun]
    /\ written = [p \in Pollers |-> NoUpdate]
    /\ passes = [p \in Pollers |-> 0]
    /\ passEnd = [p \in Pollers |-> "none"]
    /\ calls = [p \in Pollers |-> <<>>]
    /\ mpc = "idle"
    /\ mreq = 0
    /\ dispatched = NoDispatch
    /\ faults = 0
    /\ manual = 0
    /\ NoneCalled
SpecArgs == InitArgs /\ [][NextDispatch]_vars

\* ------------------------------------- update_request_status on its own
\* s * n
RECURSIVE Repeat(_, _)
Repeat(s, n) ==
    IF n <= 0 THEN ""
    ELSE LET half == Repeat(s, n \div 2)
         IN IF n % 2 = 0 THEN half \o half ELSE half \o half \o s

\* A text of n characters; the characters beyond the Notion limit differ
\* from those within it
Text(n) ==
    IF n <= NotionLimit THEN Repeat("a", n)
    ELSE Repeat("a", NotionLimit) \o Repeat("z", n - NotionLimit)

\* The result and error arguments: None, the empty text, and texts around
\* the limit
Texts ==
    {None} \cup {Text(n) : n \in {0, 1} \cup {NotionLimit + d : d \in -1..MaxOver}}

\* update_request_status(r, status, result, error), the API call succeeding
UpdateStatus(r) ==
    /\ written[1] = NoUpdate
    /\ \E status \in {STATUS_RUNNING, STATUS_DONE, STATUS_FAILED},
          result \in Texts, error \in Texts :
         /\ store' = Written(r, status, result, error, "ok")
         /\ written' = [written EXCEPT ![1] =
                          UpdateCall(r, status, result, error, "ok")]
    /\ UNCHANGED ownVars
    /\ UNCHANGED <<pageVars, worldVars, once, pc, requests, idx, ret, ran,
                   passes, passEnd, calls, manualVars, faults>>

InitUpdate ==
    /\ InitArgs
    /\ \A r \in Req : reqType[r] = "custom" /\ reqTarget[r] = None
NextUpdate == \E r \in Req : UpdateStatus(r)
SpecUpdate == InitUpdate /\ [][NextUpdate]_vars

\* Neither a poller nor a tool has been called yet
NothingRun ==
    /\ operations = 0
    /\ runs = [r \in Req |-> 0]
    /\ once = [p \in Pollers |-> FALSE]
    /\ pc = [p \in Pollers |-> "idle"]
    /\ requests = [p \in Pollers |-> <<>>]
    /\ idx = [p \in Pollers |-> 0]
    /\ ret = [p \in Pollers |-> <<FALSE, None, None>>]
    /\ ran = [p \in Pollers |-> NoRun]
    /\ written = [p \in Pollers |-> NoUpdate]
    /\ passes = [p \in Pollers |-> 0]
    /\ passEnd = [p \in Pollers |-> "none"]
    /\ calls = [p \in Pollers |-> <<>>]
    /\ mpc = "idle"
    /\ mreq = 0
    /\ dispatched = NoDispatch
    /\ faults = 0
    /\ manual = 0

\* The control plane at rest: the pages queued, nothing called yet
PlaneIdle ==
    /\ store = [r \in Req |-> NewPage]
    /\ reqType = [r \in Req |-> "custom"]
    /\ reqTarget = [r \in Req |-> None]
    /\ created = [r \in Req |-> MaxReq + 1 - r]
    /\ NothingRun

\* One poll_and_process instance whose API calls may fail once more than
\* elsewhere: the write of running and the final write of one request can
\* both fail
RetryFaults == MaxFaults + 1
NextRetry ==
    \/ Start(1)
    \/ Fetching(1, RetryFaults)
    \/ Claiming(1, RetryFaults)
    \/ ExecNormal(1)
    \/ Finalizing(1, RetryFaults)
    \/ Sleep(1)
InitRetry == PlaneIdle /\ NoneCalled
SpecRetry == InitRetry /\ [][NextRetry]_vars

\* ------------------------------------ daily_briefing._generate_summary
\* The components of a briefing, as their producers return them
EcosystemDicts ==
    {[healthy |-> h, attention_needed |-> a] : h \in {0, 5}, a \in 0..MaxCount}
        \cup {[error |-> "boom"]}
DocumentDicts == {[total_pending |-> n] : n \in 0..MaxCount}
AutomationDicts ==
    {[pending_count |-> n] : n \in 0..MaxCount} \cup {[error |-> "boom"]}
CalendarDicts ==
    {[available |-> TRUE, event_count |-> n] : n \in 0..MaxCount}
        \cup {[available |-> FALSE], [error |-> "Calendar query timed out"]}

\* generate_briefing: the calendar is an optional component
Briefings ==
    {[ecosystem |-> e, documents |-> d, automation |-> a, calendar |-> c] :
        e \in EcosystemDicts, d \in DocumentDicts, a \in AutomationDicts,
        c \in CalendarDicts}
    \cup {[ecosystem |-> e, documents |-> d, automation |-> a] :
        e \in EcosystemDicts, d \in DocumentDicts, a \in AutomationDicts}

\* cal.get("available") and cal.get("event_count", 0) > 0
HasEvents(cal) ==
    /\ "available" \in DOMAIN cal
    /\ cal["available"]
    /\ Get(cal, "event_count", 0) > 0

\* (mutant: the requests clause is appended before the documents clause)
PartsSwapped(b) ==
    LET eco == Get(b, "ecosystem", <<>>)
        docs == Get(b, "documents", <<>>)
        auto == Get(b, "automation", <<>>)
        cal == Get(b, "calendar", <<>>)
        p1 == IF Get(eco, "attention_needed", 0) > 0
              THEN <<ToString(eco["attention_needed"]) \o " system(s) need attention">>
              ELSE <<"All " \o ToString(Get(eco, "healthy", 0)) \o " systems healthy">>
        p2 == IF Get(auto, "pending_count", 0) > 0
              THEN Append(p1, ToString(Get(auto, "pending_count", 0))
                                \o " automation request(s) queued")
              ELSE p1
        p3 == IF Get(docs, "total_pending", 0) > 0
              THEN Append(p2, ToString(Get(docs, "total_pending", 0))
                                \o " document(s) pending")
              ELSE p2
    IN IF HasEvents(cal)
       THEN Append(p3, ToString(cal["event_count"]) \o " event(s) today")
       ELSE p3

\* The list parts of _generate_summary when it returns
Parts(b) ==
    LET eco == Get(b, "ecosystem", <<>>)
        docs == Get(b, "documents", <<>>)
        auto == Get(b, "automation", <<>>)
        cal == Get(b, "calendar", <<>>)
        p1 == IF Get(eco, "attention_needed", 0) > 0
              THEN <<ToString(eco["attention_needed"]) \o " system(s) need attention">>
              ELSE <<"All " \o ToString(Get(eco, "healthy", 0)) \o " systems healthy">>
        p2 == IF Get(docs, "total_pending", 0) > 0
              THEN Append(p1, ToString(Get(docs, "total_pending", 0))
                                \o " document(s) pending")
              ELSE p1
        p3 == IF Get(auto, "pending_count", 0) > 0
              THEN Append(p2, ToString(Get(auto, "pending_count", 0))
                                \o " automation request(s) queued")
              ELSE p2
    IN IF HasEvents(cal)
       THEN Append(p3, ToString(cal["event_count"]) \o " event(s) today")
       ELSE p3

\* return ". ".join(parts) + "." if parts else "All clear!"
_generate_summary(b) ==
    IF Parts(b) # <<>> THEN JoinWith(". ", Parts(b)) \o "." ELSE "All clear!"

\* briefing["summary"] = _generate_summary(briefing)
GenerateSummary ==
    /\ summary = None
    /\ summary' = _generate_summary(briefing)
    /\ UNCHANGED <<planeVars, briefing, checkVars, callVars, syncVars>>

InitSummary ==
    /\ PlaneIdle
    /\ briefing \in Briefings
    /\ summary = None
    /\ CheckIdle
    /\ CallIdle
    /\ SyncIdle
SpecSummary == InitSummary /\ [][GenerateSummary]_vars

\* --------------------- server.check_monarch_money, check_context_sync
SecondsPerDay == 86400     \* timedelta.days counts whole days
SecondsPerHour == 3600     \* total_seconds() / 3600
ExpiredDays == 14          \* if age_days > 14
StaleDays == 10            \* elif age_days > 10
LegacyStaleDays == 7       \* if age_days > 7
SyncStaleHours == 36       \* if age_hours > 36

\* (datetime.now() - mtime).days, for an age in seconds
Days(age) == age \div SecondsPerDay

\* check_monarch_money without a health report: the "status" entry, by the
\* file found (the session or token file, else the legacy pickle) and its age
check_monarch_money(kind, age) ==
    IF kind = "session_file"
    THEN IF Days(age) > ExpiredDays THEN "likely_expired"
         ELSE IF Days(age) > StaleDays THEN "stale"
         ELSE "unknown"
    ELSE IF kind = "legacy_pickle"
    THEN IF Days(age) > LegacyStaleDays THEN "stale" ELSE "connected"
    ELSE "not_authenticated"

\* check_context_sync with the repository and its CHANGELOG.md present:
\* age_hours > 36, in seconds
check_context_sync(age) ==
    IF age > SyncStaleHours * SecondsPerHour THEN "stale" ELSE "synced"

\* The ages looked at: around every threshold, and up to a day beyond it
Ages ==
    {limit + d :
        limit \in {LegacyStaleDays * SecondsPerDay, StaleDays * SecondsPerDay,
                   ExpiredDays * SecondsPerDay, SyncStaleHours * SecondsPerHour},
        d \in (-MaxSkew..MaxSkew) \cup {SecondsPerDay - 1, SecondsPerDay}}

Artifacts ==
    [kind : {"session_file", "legacy_pickle", "changelog"}, age : Ages]

\* One status check is made
Check ==
    /\ health = None
    /\ health' = IF artifact.kind = "changelog"
                 THEN check_context_sync(artifact.age)
                 ELSE check_monarch_money(artifact.kind, artifact.age)
    /\ UNCHANGED <<planeVars, summaryVars, artifact, callVars, syncVars>>

InitCheck ==
    /\ PlaneIdle
    /\ SummaryIdle
    /\ artifact \in Artifacts
    /\ health = None
    /\ CallIdle
    /\ SyncIdle
SpecCheck == InitCheck /\ [][Check]_vars

\* -------------------------- daily_briefing.get_ecosystem_status_summary
\* What the five probes find on the machine:
\*   downloads  the downloads-organizer repository exists
\*   pdfs       PDFs waiting in ~/Downloads
\*   watcher    the tax watcher LaunchAgent
\*   report     the Monarch health report file: absent, not readable as
\*              JSON, a report with the status given, or a report whose
\*              session_age_days is a text ("malformed")
\*   session    the Monarch session file found when there is no report
\*   age        the age of that file, or of CHANGELOG.md, in seconds
\*   sync       the context-sync repository and its CHANGELOG.md
\*   rules      the notion-rules repository exists
Reports == {"absent", "unreadable", "healthy", "degraded", "unhealthy",
            "malformed"}
Machines ==
    [downloads : BOOLEAN, pdfs : {0, 1},
     watcher : {"running", "loaded", "absent"},
     report : Reports,
     session : {"session_file", "none"},
     age : {0, (ExpiredDays + 1) * SecondsPerDay},
     sync : {"not_installed", "no_changelog", "changelog"},
     rules : BOOLEAN]

\* The dict a probe returns, and the exception that leaves it
Probed(name, status, details, attention) ==
    [raised |-> FALSE, name |-> name, status |-> status,
     details |-> details, attention |-> attention]
ProbeRaised(exc) ==
    [raised |-> TRUE, exc |-> exc]

check_downloads_organizer(m) ==
    IF ~m.downloads
    THEN Probed("Downloads Organizer", "not_installed",
                <<"Repository not found">>, <<>>)
    ELSE Probed("Downloads Organizer", "installed", <<"Location">>,
                IF m.pdfs > 0 THEN <<ToString(m.pdfs) \o " PDFs pending">>
                ELSE <<>>)

check_tax_organizer(m) ==
    IF m.watcher = "running"
    THEN Probed("Tax PDF Organizer (Legacy)", "watching",
                <<"Watcher running">>, <<>>)
    ELSE IF m.watcher = "loaded"
    THEN Probed("Tax PDF Organizer (Legacy)", "loaded",
                <<"Watcher loaded but not running">>, <<>>)
    ELSE Probed("Tax PDF Organizer (Legacy)", "not_running",
                <<"Watcher not loaded">>, <<>>)

\* check_monarch_money: a report that cannot be read is logged and the
\* session files are looked at instead; nothing catches what the body
\* raises on a report of another shape (f"{age_days:.1f}" on a text)
MonarchProbe(m) ==
    IF m.report = "malformed"
    THEN ProbeRaised("Unknown format code 'f' for object of type 'str'")
    ELSE IF m.report = "healthy"
    THEN Probed("Monarch Money", "connected", <<"API verified healthy">>, <<>>)
    ELSE IF m.report = "degraded"
    THEN Probed("Monarch Money", "degraded", <<>>, <<"Re-authenticate">>)
    ELSE IF m.report = "unhealthy"
    THEN Probed("Monarch Money", "unhealthy", <<"Error: 401">>,
                <<"Re-authenticate">>)
    ELSE LET status == check_monarch_money(m.session, m.age)
         IN Probed("Monarch Money", status,
                   IF m.session = "none" THEN <<>>
                   ELSE IF status = "unknown"
                   THEN <<"Session file", "No health report - status unverified">>
                   ELSE <<"Session file">>,
                   IF status = "likely_expired"
                   THEN <<"Session likely expired (>14 days old)">>
                   ELSE IF status = "stale"
                   THEN <<"Session may need refresh (>10 days old)">>
                   ELSE IF status = "not_authenticated"
                   THEN <<"Run login_setup.py to authenticate">>
                   ELSE <<>>)

ContextProbe(m) ==
    IF m.sync = "not_installed"
    THEN Probed("Context Sync", "not_installed", <<"Repository not found">>, <<>>)
    ELSE IF m.sync = "no_changelog"
    THEN Probed("Context Sync", "not_configured", <<"CHANGELOG.md not found">>,
                <<>>)
    ELSE LET status == check_context_sync(m.age)
         IN Probed("Context Sync", status, <<"Last sync">>,
                   IF status = "stale"
                   THEN <<"Sync may be stale (>36 hours)">> ELSE <<>>)

check_notion_rules(m) ==
    IF ~m.rules
    THEN Probed("Notion Rules (Tax OCR)", "not_installed",
                <<"Repository not found">>, <<>>)
    ELSE Probed("Notion Rules (Tax OCR)", "idle", <<>>, <<>>)

ProbeNames == <<"downloads_organizer", "tax_organizer", "monarch_money",
                "context_sync", "notion_rules">>

\* The five calls, in the order the status dict is built
Probes(m) ==
    <<check_downloads_organizer(m), check_tax_organizer(m), MonarchProbe(m),
      ContextProbe(m), check_notion_rules(m)>>

HealthyStatuses == {"watching", "connected", "synced", "installed", "idle"}

\* len([x for x in xs if pred]) over the probes' dicts
RECURSIVE CountHealthy(_)
CountHealthy(checks) ==
    IF checks = <<>> THEN 0
    ELSE (IF Head(checks).status \in HealthyStatuses THEN 1 ELSE 0)
             + CountHealthy(Tail(checks))

RECURSIVE AttentionItems(_)
AttentionItems(checks) ==
    IF checks = <<>> THEN <<>>
    ELSE [i \in DOMAIN Head(checks).attention |->
             Head(checks).name \o ": " \o Head(checks).attention[i]]
         \o AttentionItems(Tail(checks))

\* get_ecosystem_status_summary(): one try block around the five calls and
\* the counting; whatever it raises becomes {"error": str(e)}
get_ecosystem_status_summary(m) ==
    LET checks == Probes(m)
    IN IF \E i \in DOMAIN checks : checks[i].raised
       THEN [error |-> checks[CHOOSE i \in DOMAIN checks : checks[i].raised].exc]
       ELSE [healthy |-> CountHealthy(checks),
             attention_needed |-> Len(checks) - CountHealthy(checks),
             attention_items |-> AttentionItems(checks),
             details |-> [i \in DOMAIN checks |-> checks[i].status]]

\* briefing["ecosystem"] = get_ecosystem_status_summary()
EcosystemSummary ==
    /\ ~HasReturned
    /\ returned' = get_ecosystem_status_summary(world)
    /\ UNCHANGED <<planeVars, summaryVars, checkVars, world, syncVars>>

InitEcosystem ==
    /\ PlaneIdle
    /\ SummaryIdle
    /\ CheckIdle
    /\ world \in Machines
    /\ returned = NotReturned
    /\ SyncIdle
SpecEcosystem == InitEcosystem /\ [][EcosystemSummary]_vars

\* ------------------------------------- daily_briefing.get_calendar_events
\* s.lstrip(chars), s.rstrip(chars) and s.strip(), chars a set of characters
RECURSIVE LStrip(_, _)
LStrip(s, chars) ==
    IF Len(s) > 0 /\ SubSeq(s, 1, 1) \in chars
    THEN LStrip(SubSeq(s, 2, Len(s)), chars)
    ELSE s
RECURSIVE RStrip(_, _)
RStrip(s, chars) ==
    IF Len(s) > 0 /\ SubSeq(s, Len(s), Len(s)) \in chars
    THEN RStrip(SubSeq(s, 1, Len(s) - 1), chars)
    ELSE s
Whitespace == {" "}
Strip(s) == RStrip(LStrip(s, Whitespace), Whitespace)

\* sub in s
Contains(s, sub) ==
    \E i \in 1..(Len(s) - Len(sub) + 1) : SubSeq(s, i, i + Len(sub) - 1) = sub

\* The lines icalBuddy prints: a title behind its bullet, the time of the
\* event, the attendees, an empty line
Lines == {"* Standup", "    9:00 AM - 9:30 AM", "    attendees: Ann", ""}
RECURSIVE SeqsUpTo(_, _)
SeqsUpTo(S, n) ==
    IF n = 0 THEN {<<>>}
    ELSE LET shorter == SeqsUpTo(S, n - 1)
         IN shorter \cup {Append(q, x) : q \in {s \in shorter : Len(s) = n - 1},
                                         x \in S}

\* What the two subprocesses do:
\*   which   "which icalBuddy": found, missing (returncode 1), the call
\*           timed out, there is no which (FileNotFoundError), or it failed
\*           otherwise (PermissionError)
\*   query   the icalBuddy call: it answered, failed (returncode 1), timed
\*           out, the binary has vanished, or it failed otherwise
\*   stdout  the lines of the answer
Calendars ==
    { c \in [which : {"found", "missing", "timeout", "absent", "oserror"},
             query : {"ok", "failed", "timeout", "absent", "oserror"},
             stdout : SeqsUpTo(Lines, MaxLines)] :
        /\ c.which # "found" => c.query = "ok"
        /\ c.which # "found" \/ c.query # "ok" => c.stdout = <<>> }

\* The for loop over the lines: <<events, current_event>>
RECURSIVE ParseLines(_, _, _)
ParseLines(lines, events, current) ==
    IF lines = <<>> THEN <<events, current>>
    ELSE LET line == Head(lines)
             rest == Tail(lines)
         IN IF Strip(line) = "" THEN ParseLines(rest, events, current)
            ELSE IF SubSeq(line, 1, 1) = "*"
            THEN ParseLines(rest,
                            IF current # <<>> THEN Append(events, current[1])
                            ELSE events,
                            <<[title |-> Strip(LStrip(line, {"*", " "}))]>>)
            ELSE IF current # <<>>
                    /\ (Contains(Strip(line), "PM") \/ Contains(Strip(line), "AM"))
            THEN ParseLines(rest, events,
                            <<[title |-> current[1].title, time |-> Strip(line)]>>)
            ELSE ParseLines(rest, events, current)

\* The events parsed from the answer
Events(stdout) ==
    LET parsed == ParseLines(stdout, <<>>, <<>>)
    IN IF parsed[2] # <<>> THEN Append(parsed[1], parsed[2][1]) ELSE parsed[1]

EventLimit == 10

\* The try block of get_calendar_events: the dict it returns, or the
\* exception that leaves it
CalendarBody(c) ==
    IF c.which = "timeout" THEN [raised |-> "TimeoutExpired"]
    ELSE IF c.which = "absent" THEN [raised |-> "FileNotFoundError"]
    ELSE IF c.which = "oserror" THEN [raised |-> "PermissionError"]
    ELSE IF c.which = "missing"
    THEN [available |-> FALSE, hint |-> "Install icalBuddy"]
    ELSE IF c.query = "timeout" THEN [raised |-> "TimeoutExpired"]
    ELSE IF c.query = "absent" THEN [raised |-> "FileNotFoundError"]
    ELSE IF c.query = "oserror" THEN [raised |-> "PermissionError"]
    ELSE IF c.query = "ok"
    THEN [available |-> TRUE,
          event_count |-> Len(Events(c.stdout)),
          events |-> Slice(Events(c.stdout), EventLimit)]
    ELSE [available |-> TRUE, event_count |-> 0, events |-> <<>>,
          note |-> "No events found"]

\* (mutant: a timeout is reported like a missing tool)
get_calendar_eventsHint(c) ==
    LET body == CalendarBody(c)
    IN IF "raised" \notin DOMAIN body THEN body
       ELSE IF body.raised \in {"TimeoutExpired", "FileNotFoundError"}
       THEN [available |-> FALSE, hint |-> "Install icalBuddy"]
       ELSE [error |-> body.raised]

\* get_calendar_events(): the three except clauses
get_calendar_events(c) ==
    LET body == CalendarBody(c)
    IN IF "raised" \notin DOMAIN body THEN body
       ELSE IF body.raised = "TimeoutExpired"
       THEN [error |-> "Calendar query timed out"]
       ELSE IF body.raised = "FileNotFoundError"
       THEN [available |-> FALSE, hint |-> "Install icalBuddy"]
       ELSE [error |-> body.raised]

\* briefing["calendar"] = get_calendar_events()
CalendarEvents ==
    /\ ~HasReturned
    /\ returned' = get_calendar_events(world)
    /\ UNCHANGED <<planeVars, summaryVars, checkVars, world, syncVars>>

InitCalendar ==
    /\ PlaneIdle
    /\ SummaryIdle
    /\ CheckIdle
    /\ world \in Calendars
    /\ returned = NotReturned
    /\ SyncIdle
SpecCalendar == InitCalendar /\ [][CalendarEvents]_vars

\* ---------------------------------------- monarch_sync.sync_transactions
TxIds == 1..MaxTx                     \* Monarch transaction IDs

\* What get_monarch_transactions returns: transactions of distinct IDs in
\* any order, [] when Monarch cannot be reached
Retrieved ==
    { q \in SeqsUpTo(TxIds, MaxTx) : \A i, j \in DOMAIN q : i # j => q[i] # q[j] }

\* get_existing_monarch_ids: the Monarch IDs of the pages of the database;
\* a query that fails is logged and the empty set is returned
get_existing_monarch_ids(db, queryOk) ==
    IF queryOk THEN {i \in TxIds : db[i] > 0} ELSE {}

\* The counters of result, and the database
Counters(synced, skipped, errors, db) ==
    [synced |-> synced, skipped |-> skipped, errors |-> errors, db |-> db]

\* (mutant: a dry run counts nothing)
SyncOneQuiet(acc, tx, dry_run, existing_ids, failing) ==
    IF tx \in existing_ids
    THEN [acc EXCEPT !.skipped = @ + 1]
    ELSE IF dry_run
    THEN acc
    ELSE IF tx \in failing
    THEN [acc EXCEPT !.errors = @ + 1]
    ELSE [acc EXCEPT !.synced = @ + 1, !.db[tx] = @ + 1]

\* The body of "for tx in transactions": the transaction is skipped, counted
\* as would_create, or its page is created (create_notion_page raises for
\* the transactions in failing)
SyncOne(acc, tx, dry_run, existing_ids, failing) ==
    IF tx \in existing_ids
    THEN [acc EXCEPT !.skipped = @ + 1]
    ELSE IF dry_run
    THEN [acc EXCEPT !.synced = @ + 1]
    ELSE IF tx \in failing
    THEN [acc EXCEPT !.errors = @ + 1]
    ELSE [acc EXCEPT !.synced = @ + 1, !.db[tx] = @ + 1]

RECURSIVE SyncLoop(_, _, _, _, _)
SyncLoop(transactions, acc, dry_run, existing_ids, failing) ==
    IF transactions = <<>> THEN acc
    ELSE SyncLoop(Tail(transactions),
                  SyncOne(acc, Head(transactions), dry_run, existing_ids, failing),
                  dry_run, existing_ids, failing)

\* sync_transactions(dry_run): <<result, the database afterwards>>
sync_transactions(db, dry_run, token, transactions, queryOk, failing) ==
    IF ~token
    THEN <<[success |-> FALSE, synced |-> 0, skipped |-> 0, errors |-> 0,
            error |-> "Notion token not found. Set NOTION_TOKEN environment variable."],
           db>>
    ELSE IF transactions = <<>>
    THEN <<[success |-> FALSE, synced |-> 0, skipped |-> 0, errors |-> 0,
            error |-> "No transactions retrieved from Monarch"],
           db>>
    ELSE LET existing_ids == get_existing_monarch_ids(db, queryOk)
             acc == SyncLoop(transactions, Counters(0, 0, 0, db), dry_run,
                             existing_ids, failing)
         IN <<[success |-> acc.errors = 0, synced |-> acc.synced,
               skipped |-> acc.skipped, errors |-> acc.errors,
               summary |-> "Synced " \o ToString(acc.synced) \o ", skipped "
                             \o ToString(acc.skipped) \o " duplicates, "
                             \o ToString(acc.errors) \o " errors"],
              acc.db>>

\* A sync_transactions run: its number, arguments, what Monarch returned,
\* the database before it and the result
SyncRun(n, dry_run, token, transactions, before, result) ==
    [n |-> n, dry_run |-> dry_run, token |-> token,
     transactions |-> transactions, before |-> before, result |-> result]
NoSync == [n |-> 0]

\* One run of sync_transactions, from the call to the return
SyncTransactions ==
    /\ syncRun.n < MaxRuns
    /\ \E dry_run \in BOOLEAN, token \in BOOLEAN, transactions \in Retrieved,
          queryOk \in BOOLEAN, failing \in SUBSET TxIds :
         LET out == sync_transactions(database, dry_run, token, transactions,
                                      queryOk, failing)
         IN \* (an answer that is never asked for is left at its default)
            /\ ~token => transactions = <<>>
            /\ transactions = <<>> => queryOk
            /\ failing \subseteq {transactions[i] : i \in DOMAIN transactions}
            /\ dry_run => failing = {}
            /\ database' = out[2]
            /\ syncRun' = SyncRun(syncRun.n + 1, dry_run, token, transactions,
                                  database, out[1])
    /\ UNCHANGED <<planeVars, summaryVars, checkVars, callVars>>

\* The database holds at most one page per Monarch ID
InitSync ==
    /\ PlaneIdle
    /\ SummaryIdle
    /\ CheckIdle
    /\ CallIdle
    /\ database \in [TxIds -> {0, 1}]
    /\ syncRun = NoSync
SpecSync == InitSync /\ [][SyncTransactions]_vars

\* ------------------------------------------------- the CLI entry points
\* The command lines, and what the operation behind them answers:
\*   daily_briefing   --no-financial, --no-calendar, --notion, --json,
\*                    --quiet; saved is the "success" entry of
\*                    save_briefing_to_notion
\*   monarch_sync     --dry-run; the token, the retrieved transactions and
\*                    the pages whose creation fails, against an empty
\*                    database
\*   notion_control   --create-db, --set-db or polling; created tells
\*                    whether create_automation_requests_database returned
\*                    an id
CommandLines ==
    { c \in [cli : {"daily_briefing"}, no_financial : BOOLEAN,
             no_calendar : BOOLEAN, notion : BOOLEAN, json : BOOLEAN,
             quiet : BOOLEAN, saved : BOOLEAN] : ~c.notion => c.saved }
    \cup { c \in [cli : {"monarch_sync"}, dry_run : BOOLEAN, token : BOOLEAN,
                  transactions : Retrieved, failing : SUBSET TxIds] :
             /\ ~c.token => c.transactions = <<>>
             /\ c.failing \subseteq {c.transactions[i] : i \in DOMAIN c.transactions}
             /\ c.dry_run => c.failing = {} }
    \cup { c \in [cli : {"notion_control"},
                  mode : {"create_db", "set_db", "poll"},
                  once : BOOLEAN, created : BOOLEAN] :
             /\ c.mode # "create_db" => c.created
             /\ c.mode # "poll" => ~c.once }

\* The exit code of the interpreter: the argument of sys.exit when the module
\* passes the value of main() to it (None counts as 0), and 0 when the
\* module calls main() and drops its value
ProcessExit(exits, value) ==
    IF exits THEN (IF value \in Int THEN value ELSE 0) ELSE 0

\* daily_briefing.main(): every path ends with "return" or falls off the end
BriefingMain(c) == None

\* monarch_sync.main(): return 0 if result.get("success") else 1
SyncMain(c) ==
    LET result == sync_transactions([i \in TxIds |-> 0], c.dry_run, c.token,
                                    c.transactions, TRUE, c.failing)[1]
    IN IF result.success THEN 0 ELSE 1

\* notion_control.main(): every path ends with "return" or falls off the end
ControlMain(c) == None

\* The module run as a script: its "if __name__ == '__main__'" block
ExitCode(c) ==
    IF c.cli = "daily_briefing" THEN ProcessExit(FALSE, BriefingMain(c))
    ELSE IF c.cli = "monarch_sync" THEN ProcessExit(TRUE, SyncMain(c))
    ELSE ProcessExit(FALSE, ControlMain(c))

\* The operation the command line asked for succeeded
OperationOk(c) ==
    IF c.cli = "daily_briefing" THEN c.saved
    ELSE IF c.cli = "monarch_sync"
    THEN sync_transactions([i \in TxIds |-> 0], c.dry_run, c.token,
                           c.transactions, TRUE, c.failing)[1].success
    ELSE c.created

\* The process runs to its end
RunCli ==
    /\ ~HasReturned
    /\ returned' = [code |-> ExitCode(world)]
    /\ UNCHANGED <<planeVars, summaryVars, checkVars, world, syncVars>>

InitCli ==
    /\ PlaneIdle
    /\ SummaryIdle
    /\ CheckIdle
    /\ world \in CommandLines
    /\ returned = NotReturned
    /\ SyncIdle
SpecCli == InitCli /\ [][RunCli]_vars

\* ----------------------------------- daily_briefing.get_pending_requests
\* Pages that an earlier pass has finished
DonePage == [Status |-> STATUS_DONE, Completed |-> "earlier",
             Result |-> "Organized files.", Error |-> None]
FailedPage == [Status |-> STATUS_FAILED, Completed |-> "earlier",
               Result |-> None, Error |-> "downloads-organizer not found"]

RequestLimit == 5                     \* requests[:5]

\* One entry of the "requests" list, for a parsed request r
BriefingEntry(r) ==
    [name |-> Get(r, "name", ""),
     command |-> Get(r, "command", ""),
     arguments |-> Get(r, "arguments", ""),
     created |-> Get(r, "created", "")]

\* daily_briefing.get_pending_requests(): the count and the first five of
\* notion_control.get_pending_requests(); {"error": str(e)} when that raises
BriefingPending(outcome) ==
    IF outcome = "raise" THEN [error |-> "Request timed out"]
    ELSE LET queued == get_pending_requests(outcome)
             first == Slice(queued, RequestLimit)
         IN [pending_count |-> Len(queued),
             requests |-> [i \in DOMAIN first |->
                              BriefingEntry(parse_request_page(first[i]))]]

\* briefing["automation"] = get_pending_requests()
PendingRequests ==
    /\ ~HasReturned
    /\ returned' = BriefingPending(world.outcome)
    /\ UNCHANGED <<planeVars, summaryVars, checkVars, world, syncVars>>

\* Pages of two types, with a target or without, queued or done
InitPending ==
    /\ store \in [Req -> {NewPage, DonePage}]
    /\ reqType \in [Req -> {"organize", "custom"}]
    /\ reqTarget \in [Req -> {"tax", None}]
    /\ created = [r \in Req |-> MaxReq + 1 - r]
    /\ NothingRun
    /\ SummaryIdle
    /\ CheckIdle
    /\ world \in [outcome : ApiOutcomes]
    /\ returned = NotReturned
    /\ SyncIdle
SpecPending == InitPending /\ [][PendingRequests]_vars

\* --------------------- update_request_status on pages written to before
\* Pages that are queued, or that an earlier pass has finished
InitRewrite ==
    /\ store \in [Req -> {NewPage, DonePage, FailedPage}]
    /\ reqType = [r \in Req |-> "custom"]
    /\ reqTarget = [r \in Req |-> None]
    /\ created = [r \in Req |-> MaxReq + 1 - r]
    /\ NothingRun
    /\ NoneCalled
SpecRewrite == InitRewrite /\ [][NextUpdate]_vars

\* ======================================================================
\* Properties
\* ======================================================================
Terminal == {STATUS_DONE, STATUS_FAILED}

\* The last status write of poller p is the final write of a request
Finalized(p) == written[p].status \in Terminal

\* The request poller p is working on
Current(p) == requests[p][idx[p]]

\* Calls of execute_request so far, over all pages
RECURSIVE TotalRuns(_)
TotalRuns(S) ==
    IF S = {} THEN 0
    ELSE LET r == CHOOSE x \in S : TRUE IN runs[r] + TotalRuns(S \ {r})

\* The outcome of the operation a dispatch was mapped to, by the success
\* criteria of the dispatch table: the document's "success" entry where the
\* operation reports one, otherwise the absence of an "error" entry; an
\* operation that raised has failed
OperationSucceeded(run) ==
    /\ ~run.raised
    /\ IF run.report.success # "absent"
       THEN run.report.success = "true"
       ELSE run.report.error = "absent"

\* C1: when a polling pass has ended without an exception, every request the
\* pass fetched whose type is recognized is done or failed in the store.
C1_NoneLeftRunning ==
    \A p \in Pollers :
        passEnd[p] = "ok" =>
            \A i \in DOMAIN requests[p] :
                reqType[requests[p][i]] \in REQUEST_TYPES
                    => store[requests[p][i]].Status \in Terminal

\* C2: a page whose status is done or failed keeps that status in every step
\* of the poller and of process_automation_request.
C2_TerminalAbsorbing ==
    [][\A r \in Req :
          store[r].Status \in Terminal => store'[r].Status = store[r].Status]_vars

\* C3: in the calls of a pass, execute_request for a request comes after the
\* write of running for it, and the write of done or failed for a request
\* comes after execute_request for it; the poller is about to execute only
\* right after the write of running, and about to finalize only right after
\* execute_request.
C3_RunningExecuteFinal ==
    \A p \in Pollers :
        /\ \A i \in DOMAIN calls[p] :
             /\ calls[p][i].kind = "execute"
                  => \E j \in 1..(i - 1) :
                        calls[p][j] = Update(calls[p][i].id, STATUS_RUNNING)
             /\ calls[p][i].kind = "update" /\ calls[p][i].status \in Terminal
                  => \E j \in 1..(i - 1) : calls[p][j] = Execute(calls[p][i].id)
        /\ pc[p] = "exec"
             => /\ calls[p] # <<>>
                /\ calls[p][Len(calls[p])] = Update(Current(p), STATUS_RUNNING)
        /\ pc[p] = "finalize"
             => /\ calls[p] # <<>>
                /\ calls[p][Len(calls[p])] = Execute(Current(p))

\* A pass wrote running, executed and wrote the final status of a request
C3_Witness ==
    \E p \in Pollers :
        /\ Len(calls[p]) >= 3
        /\ calls[p][1].kind = "update" /\ calls[p][1].status = STATUS_RUNNING
        /\ calls[p][2].kind = "execute"
        /\ calls[p][3].kind = "update" /\ calls[p][3].status \in Terminal
        /\ calls[p][1].id = calls[p][3].id

\* C4: the final write of a request of a recognized type is done, carrying
\* the result text, exactly when the operation the request was mapped to
\* succeeded, and failed, carrying the error text, exactly when that
\* operation failed or raised.
C4_FinalizedByOutcome ==
    \A p \in Pollers :
        Finalized(p) /\ reqType[written[p].id] \in REQUEST_TYPES =>
            /\ written[p].status = STATUS_DONE <=> OperationSucceeded(ran[p])
            /\ written[p].status = STATUS_DONE
                 => written[p].result = ret[p][2] /\ Truthy(written[p].result)
            /\ written[p].status = STATUS_FAILED
                 => written[p].error = ret[p][3]

\* C5: for extract and sync, execute_request returns success true exactly
\* when the document of the underlying operation reports success true.
C5_ExtractSyncSuccess ==
    dispatched.type \in {"extract", "sync"} =>
        (dispatched.ret[1] <=> dispatched.ran.report.success = "true")

\* C6: for a recognized command, execute_request returns success true and a
\* non-empty result when the underlying operation succeeded, and success
\* false and a non-empty error when it failed.
C6_NonEmptyTexts ==
    dispatched.type \in REQUEST_TYPES =>
        IF OperationSucceeded(dispatched.ran)
        THEN dispatched.ret[1] /\ Truthy(dispatched.ret[2])
        ELSE ~dispatched.ret[1] /\ Truthy(dispatched.ret[3])

\* C7: for a request whose type is not one of the five recognized ones (a
\* missing type included) execute_request returns success false with an
\* error text and invokes no operation, and the poller's final write for it
\* is failed, which is the page's status when that write succeeded.
C7_UnknownTypeFails ==
    \A p \in Pollers :
        /\ pc[p] = "finalize" /\ reqType[Current(p)] \notin REQUEST_TYPES
             => /\ ret[p][1] = FALSE
                /\ Truthy(ret[p][3])
                /\ ran[p].op = None
                /\ ran[p].rows = 0
        /\ Finalized(p) /\ reqType[written[p].id] \notin REQUEST_TYPES
             => /\ written[p].status = STATUS_FAILED
                /\ written[p].outcome = "ok"
                     => store[written[p].id].Status = STATUS_FAILED

\* A request of an unrecognized type has been finalized as failed
C7_Witness ==
    \E p \in Pollers :
        /\ Finalized(p)
        /\ reqType[written[p].id] \notin REQUEST_TYPES
        /\ written[p].outcome = "ok"
        /\ store[written[p].id].Status = STATUS_FAILED
        /\ ran[p].op = None

\* C8: the operations table holds exactly one row per call of
\* execute_request.
C8_OneRowPerDispatch == operations = TotalRuns(Req)

\* C9: the write of running is unconditional: whatever the page's status,
\* a claim whose API call succeeds leaves the page running, and unless the
\* call raised the poller goes on to execute the request.
C9_ClaimUnconditional ==
    [][\A p \in Pollers :
          pc[p] = "claim" /\ pc'[p] # "claim" =>
              /\ written'[p].outcome = "ok"
                   => store'[Current(p)].Status = STATUS_RUNNING
              /\ written'[p].outcome # "raise" => pc'[p] = "exec"]_vars

\* Both pollers fetched the same queued request and both executed it
C9_Witness ==
    \E r \in Req :
        /\ runs[r] = 2
        /\ \A p \in Pollers :
             /\ passes[p] = 1
             /\ \E i \in DOMAIN calls[p] : calls[p][i] = Execute(r)
        /\ reqType[r] = "organize"

\* C10: a pass works on one request at a time, in ascending creation order:
\* the fetched list is ascending in Created, every call before the write of
\* running for a request belongs to a request whose final write is already
\* made, and of two claimed requests the one created earlier is claimed
\* first.
C10_SequentialAscending ==
    \A p \in Pollers :
        /\ \A i, j \in DOMAIN requests[p] :
             i < j => created[requests[p][i]] <= created[requests[p][j]]
        /\ \A i \in DOMAIN calls[p] :
             calls[p][i] = Update(calls[p][i].id, STATUS_RUNNING) =>
                 \A j \in 1..(i - 1) :
                     /\ calls[p][j].id # calls[p][i].id
                     /\ \E k \in j..(i - 1) :
                          /\ calls[p][k].id = calls[p][j].id
                          /\ calls[p][k].kind = "update"
                          /\ calls[p][k].status \in Terminal
        /\ \A i, j \in DOMAIN calls[p] :
             /\ calls[p][i].status = STATUS_RUNNING
             /\ calls[p][j].status = STATUS_RUNNING
             /\ created[calls[p][i].id] < created[calls[p][j].id]
             => i < j

\* A pass has claimed, executed and finalized two requests
C10_Witness ==
    \E p \in Pollers :
        /\ Len(calls[p]) >= 6
        /\ calls[p][1].status = STATUS_RUNNING
        /\ calls[p][4].status = STATUS_RUNNING
        /\ calls[p][3].status \in Terminal
        /\ calls[p][6].status \in Terminal
        /\ calls[p][1].id # calls[p][4].id

\* A step of poller p that is the KeyboardInterrupt: poll_and_process
\* returns without having fetched and without having made a call
Interrupted(p) ==
    /\ pc[p] # "returned" /\ pc'[p] = "returned"
    /\ passes'[p] = passes[p]
    /\ calls'[p] = calls[p]

\* C11: a fetch that fails (the query returns APIResponseError or raises)
\* claims and executes nothing and writes no status, the pass is over as
\* with no pending request, and with once false the poller sleeps and then
\* fetches again.
C11_FetchFailureTolerated ==
    [][\A p \in Pollers :
          /\ pc[p] = "fetch" /\ faults' # faults
               => /\ requests'[p] = <<>>
                  /\ calls'[p] = <<>>
                  /\ written'[p] = NoUpdate
                  /\ store' = store
                  /\ runs' = runs
                  /\ pc'[p] = (IF once[p] THEN "returned" ELSE "sleep")
          /\ pc[p] = "sleep" /\ pc'[p] # "sleep" /\ ~Interrupted(p)
               => pc'[p] = "fetch"]_vars

\* In continuous mode a fetch has raised while requests were queued, and the
\* poller is sleeping until the next pass
C11_Witness ==
    \E p \in Pollers :
        /\ ~once[p]
        /\ pc[p] = "sleep"
        /\ passEnd[p] = "exception"
        /\ calls[p] = <<>>
        /\ \E r \in Req : store[r].Status = STATUS_QUEUED

\* C12: with once true poll_and_process fetches at most once, is never
\* sleeping, and has returned as soon as its pass is over, normally or by an
\* exception; with once false it returns by an interrupt only.
C12_OnceOrForever ==
    [][\A p \in Pollers :
          /\ once'[p] => passes'[p] <= 1 /\ pc'[p] # "sleep"
          /\ once'[p] /\ passEnd'[p] \in {"ok", "exception"}
               => pc'[p] = "returned" /\ passes'[p] = 1
          /\ pc[p] # "returned" /\ pc'[p] = "returned" /\ ~Interrupted(p)
               => once[p] /\ passes'[p] = 1]_vars

\* A single-shot call has returned after one pass that ended by an exception
C12_Witness ==
    \E p \in Pollers :
        /\ once[p]
        /\ pc[p] = "returned"
        /\ passes[p] = 1
        /\ passEnd[p] = "exception"
        /\ calls[p] # <<>>

\* C13: the interrupt changes no page, and once poll_and_process has
\* returned it makes no further call and changes no page: a request that
\* was running stays running.
C13_InterruptEnds ==
    [][/\ (\E p \in Pollers : Interrupted(p)) => store' = store /\ runs' = runs
       /\ \A p \in Pollers :
            pc[p] = "returned"
              => /\ pc'[p] = "returned"
                 /\ calls'[p] = calls[p]
                 /\ written'[p] = written[p]
                 /\ passes'[p] = passes[p]
       /\ pc[1] = "returned" => store' = store /\ runs' = runs]_vars

\* poll_and_process was interrupted between the write of running and the
\* final write, and the request is still running
C13_Witness ==
    \E p \in Pollers :
        /\ pc[p] = "returned"
        /\ passEnd[p] = "interrupt"
        /\ written[p].status = STATUS_RUNNING
        /\ written[p].outcome = "ok"
        /\ store[written[p].id].Status = STATUS_RUNNING

\* C14: a custom request whose argument is the keyword daily-briefing runs
\* the daily-briefing action; every other custom request runs nothing and
\* returns success true with the text asking for manual handling.
C14_KeywordRunsBriefing ==
    dispatched.type = "custom" =>
        IF dispatched.target = KeywordTarget
        THEN dispatched.ran.op = "get_daily_briefing"
        ELSE /\ dispatched.ran.op = None
             /\ dispatched.ret[1]
             /\ Truthy(dispatched.ret[2])

\* C15: a reconcile request returns success true, with a result text, exactly
\* when run_reconciliation completed without raising (and the server module
\* could be imported), whatever the number of issues.
C15_ReconcileSucceeds ==
    dispatched.type = "reconcile" =>
        /\ dispatched.ret[1]
             <=> (dispatched.env.importOk /\ ~dispatched.env.raises)
        /\ dispatched.ret[1] => Truthy(dispatched.ret[2])
        /\ ~dispatched.ret[1] => Truthy(dispatched.ret[3])

\* A reconciliation that found issues was reported as a success
C15_Witness ==
    /\ dispatched.type = "reconcile"
    /\ dispatched.env.issues > 0
    /\ dispatched.ret[1]
    /\ dispatched.ran.op = "run_reconciliation"

\* C16: an organize request invokes organize_downloads and nothing else, with
\* file type pdf for target tax, media for media and all for every other
\* target (a missing one included), and with dry_run false.
C16_OrganizeFileType ==
    dispatched.type = "organize" /\ dispatched.env.importOk =>
        /\ dispatched.ran.op = "organize_downloads"
        /\ dispatched.ran.report.file_type # "absent" =>
             /\ dispatched.ran.report.file_type =
                  (IF dispatched.target = "tax" THEN "pdf"
                   ELSE IF dispatched.target = "media" THEN "media"
                   ELSE "all")
             /\ dispatched.ran.report.dry_run = "false"

\* An organize request with a target other than tax, media and all (or with
\* none) had every file type organized
C16_Witness ==
    /\ dispatched.type = "organize"
    /\ dispatched.target \notin OrganizeTargets
    /\ dispatched.ran.report.file_type = "all"
    /\ dispatched.ran.report.dry_run = "false"

\* What a page property holds after text was passed for it: its length is
\* min(Len(text), NotionLimit), a text within the limit is kept unchanged and
\* a longer one is cut to its first NotionLimit characters
TruncatedTo(held, text) ==
    /\ Len(held) = (IF Len(text) < NotionLimit THEN Len(text) ELSE NotionLimit)
    /\ IF Len(text) <= NotionLimit
       THEN held = text
       ELSE held \o SubSeq(text, NotionLimit + 1, Len(text)) = text

\* C17: update_request_status writes a non-empty result, and a non-empty
\* error, cut to min(length, 2000) characters: unchanged up to 2000
\* characters, the first 2000 characters beyond.
C17_TruncatesTo2000 ==
    written[1].id # 0 /\ written[1].outcome = "ok" =>
        /\ Truthy(written[1].result)
             => TruncatedTo(store[written[1].id].Result, written[1].result)
        /\ Truthy(written[1].error)
             => TruncatedTo(store[written[1].id].Error, written[1].error)

\* A result of more than 2000 characters was written as 2000 characters
C17_Witness ==
    /\ written[1].id # 0
    /\ Truthy(written[1].result)
    /\ Len(written[1].result) > NotionLimit
    /\ Len(store[written[1].id].Result) = NotionLimit

\* The numbers _generate_summary reads from a briefing
Attention(b) == Get(Get(b, "ecosystem", <<>>), "attention_needed", 0)
TotalPending(b) == Get(Get(b, "documents", <<>>), "total_pending", 0)
PendingCount(b) == Get(Get(b, "automation", <<>>), "pending_count", 0)
EventCount(b) ==
    IF HasEvents(Get(b, "calendar", <<>>)) THEN b["calendar"]["event_count"] ELSE 0

\* The first position of sub in s, 0 when s does not contain it
Pos(s, sub) ==
    LET at == {i \in 1..(Len(s) - Len(sub) + 1) :
                  SubSeq(s, i, i + Len(sub) - 1) = sub}
    IN IF at = {} THEN 0 ELSE CHOOSE i \in at : \A j \in at : i <= j

\* The four clauses of a summary, for a count n
AttentionClause(n) == ToString(n) \o " system(s) need attention"
DocumentsClause(n) == ToString(n) \o " document(s) pending"
RequestsClause(n) == ToString(n) \o " automation request(s) queued"
EventsClause(n) == ToString(n) \o " event(s) today"

\* C18: when none of the four clauses applies (nothing needs attention, no
\* document pending, no request queued, no event today) the summary is
\* exactly "All clear!".
C18_AllClear ==
    /\ summary # None
    /\ Attention(briefing) = 0
    /\ TotalPending(briefing) = 0
    /\ PendingCount(briefing) = 0
    /\ EventCount(briefing) = 0
    => summary = "All clear!"

\* C19: the summary ends with "."; the attention clause is in it iff
\* attention_needed > 0 and then opens it, the documents clause iff
\* total_pending > 0, the requests clause iff pending_count > 0, the events
\* clause iff the calendar is available with event_count > 0; the clauses
\* present stand in the order attention, documents, requests, events, each
\* followed by ". " or by the final "."; and for the counts 2, 3, 1, 2 the
\* summary is exactly the four clauses.
C19_ClausesInOrder ==
    summary # None =>
        LET a == Attention(briefing)
            d == TotalPending(briefing)
            r == PendingCount(briefing)
            e == EventCount(briefing)
            pa == Pos(summary, AttentionClause(a))
            pd == Pos(summary, DocumentsClause(d))
            pr == Pos(summary, RequestsClause(r))
            pe == Pos(summary, EventsClause(e))
            present == {x \in {<<1, pa, Len(AttentionClause(a))>>,
                               <<2, pd, Len(DocumentsClause(d))>>,
                               <<3, pr, Len(RequestsClause(r))>>,
                               <<4, pe, Len(EventsClause(e))>>} : x[2] > 0}
        IN /\ SubSeq(summary, Len(summary), Len(summary)) = "."
           /\ pa > 0 <=> a > 0
           /\ a > 0 => pa = 1
           /\ pd > 0 <=> d > 0
           /\ pr > 0 <=> r > 0
           /\ pe > 0 <=> e > 0
           /\ Pos(summary, " system(s) need attention") > 0 => pa > 0
           /\ Pos(summary, " document(s) pending") > 0 => pd > 0
           /\ Pos(summary, " automation request(s) queued") > 0 => pr > 0
           /\ Pos(summary, " event(s) today") > 0 => pe > 0
           /\ \A x, y \in present : x[1] < y[1] => x[2] + x[3] + 2 <= y[2]
           /\ \A x \in present :
                 IF x[2] + x[3] = Len(summary) THEN TRUE
                 ELSE /\ x[2] + x[3] < Len(summary)
                      /\ SubSeq(summary, x[2] + x[3], x[2] + x[3] + 1) = ". "
           /\ a = 2 /\ d = 3 /\ r = 1 /\ e = 2
                => summary = "2 system(s) need attention. 3 document(s) pending. "
                               \o "1 automation request(s) queued. 2 event(s) today."

\* The summary of a briefing with 2 systems needing attention, 3 documents
\* pending, 1 request queued and 2 events today has been generated
C19_Witness ==
    /\ summary # None
    /\ Attention(briefing) = 2
    /\ TotalPending(briefing) = 3
    /\ PendingCount(briefing) = 1
    /\ EventCount(briefing) = 2
    /\ Len(summary) > 0

\* The threshold of a check, in seconds, and the status it reports beyond it
StaleAfter(kind) ==
    IF kind = "changelog" THEN SyncStaleHours * SecondsPerHour
    ELSE IF kind = "legacy_pickle" THEN LegacyStaleDays * SecondsPerDay
    ELSE StaleDays * SecondsPerDay

\* C20: every check is exact to the second: the artifact is reported stale
\* (or likely_expired) exactly when its age exceeds the threshold, and the
\* session file is reported likely_expired exactly when its age exceeds 14
\* days.
C20_BoundaryExact ==
    health # None =>
        /\ health \in {"stale", "likely_expired"}
             <=> artifact.age > StaleAfter(artifact.kind)
        /\ artifact.kind = "session_file"
             => (health = "likely_expired"
                   <=> artifact.age > ExpiredDays * SecondsPerDay)

\* C21: when one probe fails internally, the ecosystem summary still reports
\* all five probes: the failing one with status unknown, the other four with
\* the statuses they returned, and healthy and attention_needed counting the
\* five.
C21_ProbeFailureContained ==
    HasReturned /\ world.report \in {"malformed", "unreadable"} =>
        /\ "error" \notin DOMAIN returned
        /\ returned["healthy"] + returned["attention_needed"] = Len(ProbeNames)
        /\ returned["details"][3] = "unknown"
        /\ \A i \in {1, 2, 4, 5} :
             returned["details"][i] = Probes(world)[i].status

\* The three conditions of the calendar: the tool is not installed, the query
\* timed out, the query answered with no event
CalendarCondition(c) ==
    IF c.which \in {"missing", "absent"} \/ c.query = "absent"
    THEN "not_installed"
    ELSE IF c.which = "timeout" \/ c.query = "timeout" THEN "timed_out"
    ELSE IF c.which = "found" /\ c.query = "ok" /\ Events(c.stdout) = <<>>
    THEN "zero_events"
    ELSE "other"

\* C22: get_calendar_events always returns a dict, whatever the subprocesses
\* do, and what it returns under one of the three conditions (not installed,
\* timed out, zero events) differs from what it returns under each of the
\* other two.
C22_CalendarDistinguishable ==
    HasReturned =>
        /\ "raised" \notin DOMAIN returned
        /\ \A c \in Calendars :
             /\ CalendarCondition(c) # "other"
             /\ CalendarCondition(world) # "other"
             /\ CalendarCondition(c) # CalendarCondition(world)
             => get_calendar_events(c) # returned

\* The query timed out and the call returned the time-out error dict
C22_Witness ==
    /\ HasReturned
    /\ world.which = "found"
    /\ world.query = "timeout"
    /\ returned = [error |-> "Calendar query timed out"]

\* C23: after any sequence of sync_transactions runs the database holds at
\* most one page per Monarch transaction ID.
C23_OnePagePerId == \A i \in TxIds : database[i] <= 1

\* C29: when sync_transactions retrieved a non-empty list, synced + skipped +
\* errors is the number of retrieved transactions, success is true exactly
\* when errors is 0, and a dry run creates no page while synced counts every
\* transaction that was not skipped.
C29_CountersAddUp ==
    syncRun.n > 0 /\ syncRun.token /\ syncRun.transactions # <<>> =>
        LET result == syncRun.result
        IN /\ result.synced + result.skipped + result.errors
                = Len(syncRun.transactions)
           /\ result.success <=> result.errors = 0
           /\ syncRun.dry_run
                => /\ database = syncRun.before
                   /\ result.errors = 0
                   /\ result.synced = Len(syncRun.transactions) - result.skipped

\* A dry run over two transactions, one of them already in the database, has
\* returned: one counted as synced, one skipped, no page created
C29_Witness ==
    /\ syncRun.n > 0
    /\ syncRun.token
    /\ syncRun.dry_run
    /\ Len(syncRun.transactions) = 2
    /\ syncRun.result.synced = 1
    /\ syncRun.result.skipped = 1
    /\ database = syncRun.before

\* C24: a CLI entry point ends with exit code 0 exactly when its operation
\* succeeded; the briefing CLI run with --notion ends with a non-zero code
\* when save_briefing_to_notion reports success false.
C24_ExitCodeReflectsSuccess ==
    HasReturned => (returned.code = 0 <=> OperationOk(world))

\* C25: when process_automation_request returns after having executed the
\* request, the request is done if the execution succeeded and failed
\* otherwise, never running.
C25_ToolFinalizes ==
    [][mpc = "exec" /\ mpc' = "idle" =>
          /\ store'[mreq].Status \in Terminal
          /\ store'[mreq].Status # STATUS_RUNNING]_vars

\* C26: with one poller, no manual call and every status write succeeding,
\* no request is executed twice, and a fetch returns only requests that are
\* queued and were never claimed or executed.
C26_ExecutedAtMostOnce ==
    [][/\ \A r \in Req : runs'[r] <= 1
       /\ \A p \in Pollers :
            passes'[p] # passes[p] =>
                \A i \in DOMAIN requests'[p] :
                    /\ store[requests'[p][i]].Status = STATUS_QUEUED
                    /\ runs[requests'[p][i]] = 0]_vars

\* The second pass fetched nothing: the requests of the first pass are done
\* or failed, each executed once
C26_Witness ==
    /\ passes[1] = 2
    /\ faults = 0
    /\ pc[1] = "sleep"
    /\ requests[1] = <<>>
    /\ \A r \in Req : runs[r] = 1 /\ store[r].Status \in Terminal

\* C27: the poller goes on whatever update_request_status returns: after a
\* write of running that returned False the request is executed all the
\* same; a final write that fails leaves the page as it was; and a fetch
\* returns every page that is queued, executed before or not, which the pass
\* then executes again.
C27_WriteOutcomeIgnored ==
    [][\A p \in Pollers :
          /\ pc[p] = "claim" /\ written'[p].outcome = "api_error"
               => /\ pc'[p] = "exec"
                  /\ store' = store
          /\ pc[p] = "exec" /\ pc'[p] # "exec"
               => /\ pc'[p] = "finalize"
                  /\ runs'[Current(p)] = runs[Current(p)] + 1
          /\ pc[p] = "finalize" /\ written'[p].outcome # "ok"
               => store' = store
          /\ passes'[p] # passes[p] /\ faults' = faults
               => \A r \in Req :
                     store[r].Status = STATUS_QUEUED
                       => \E i \in DOMAIN requests'[p] : requests'[p][i] = r]_vars

\* Both status writes of a request failed in the first pass, and the second
\* pass has executed the request again
C27_Witness ==
    \E r \in Req :
        /\ runs[r] = 2
        /\ passes[1] = 2
        /\ faults >= 2

\* C28: when the query succeeds, pending_count is the number n of queued
\* requests, the requests list has min(5, n) entries, and entry i carries the
\* name (the Request title), the command (the Type), the arguments (the
\* Target) and the creation time of the i-th queued request in fetch order.
C28_EntriesCarryRequest ==
    HasReturned /\ world.outcome = "ok" =>
        LET n == Len(QueryQueued)
        IN /\ returned["pending_count"] = n
           /\ Len(returned["requests"])
                = (IF n < RequestLimit THEN n ELSE RequestLimit)
           /\ \A i \in DOMAIN returned["requests"] :
                LET entry == returned["requests"][i]
                    request == parse_request_page(QueryQueued[i])
                IN /\ entry.name = request.request
                   /\ entry.command = Str(request.type)
                   /\ entry.arguments = Str(request.target)
                   /\ entry.created = request.created

\* C30: a status write that succeeds changes the page it names and no other,
\* and on that page the fields it names and no other: Status always;
\* Completed exactly when the status is done or failed; Result exactly when
\* a non-empty result is passed, Error exactly when a non-empty error is
\* passed. The write of running, passed neither, changes only Status.
C30_WritesOnlyNamedFields ==
    [][written'[1] # written[1] /\ written'[1].outcome = "ok" =>
          LET w == written'[1]
              before == store[w.id]
              after == store'[w.id]
          IN /\ \A r \in Req \ {w.id} : store'[r] = store[r]
             /\ after.Status = w.status
             /\ IF w.status \in Terminal
                THEN after.Completed = "now"
                ELSE after.Completed = before.Completed
             /\ IF Truthy(w.result)
                THEN after.Result = Slice(w.result, NotionLimit)
                ELSE after.Result = before.Result
             /\ IF Truthy(w.error)
                THEN after.Error = Slice(w.error, NotionLimit)
                ELSE after.Error = before.Error
             /\ w.status = STATUS_RUNNING /\ ~Truthy(w.result) /\ ~Truthy(w.error)
                  => after = [before EXCEPT !.Status = STATUS_RUNNING]]_vars

\* A page that was done has been written running: it keeps its Completed
\* date and its Result
C30_Witness ==
    /\ written[1].status = STATUS_RUNNING
    /\ written[1].outcome = "ok"
    /\ ~Truthy(written[1].result)
    /\ ~Truthy(written[1].error)
    /\ store[written[1].id] = [DonePage EXCEPT !.Status = STATUS_RUNNING]

====
